---- MODULE Spec2Model ----
(***************************************************************************)
(* Parallelization contracts of timely dataflow                            *)
(* (timely/src/dataflow/channels/pact.rs): the Pipeline and Exchange       *)
(* pacts, and the LogPusher / LogPuller decorators that stamp, log and     *)
(* forward message envelopes.                                              *)
(*                                                                         *)
(* An Option<Message> slot is a sequence of length 0 (None) or 1 (Some).   *)
(* A Message is a record [time, data, seq, from]; data is the container,   *)
(* a sequence of records.                                                  *)
(***************************************************************************)
EXTENDS Integers, Sequences, FiniteSets

\* ------------------------------------------------------------------ inputs

\* Largest number of push calls the producers make in a run.
MaxPushes == 3

\* The worker counts of a run: one pusher, a power of two, and neither.
PeerCounts == {1, 2, 3}
\* Logical timestamps.
Times == {0, 1}
\* Records; the distribution function below takes a record to its own value.
Records == {0, 1, 2}
\* The containers producers push.
Containers == {<<1>>, <<2, 0, 2>>}
\* What the seq and from fields of a producer's envelope hold before the push
\* (Message::new takes both from its caller); no worker index, no sequence
\* number of a run is this large.
PreStamps == {9}
\* The channel identifiers handed to connect.
Identifiers == {4}

\* The envelopes a producer may hand to a send endpoint.
InputMessages ==
    {[time |-> t, data |-> c, seq |-> v, from |-> v] :
        t \in Times, c \in Containers, v \in PreStamps}
\* Option<Message> of the producers: None or Some(message).
InputSlots == {<<>>} \cup {<<m>> : m \in InputMessages}

VARIABLES
    pact,       \* "Pipeline" or "Exchange": the contract of the channel
    peers,      \* number of workers
    pushers,    \* pushers[s][d]: the LogPusher of worker s addressing worker d
    pullers,    \* pullers[d]: the LogPuller of worker d
    builders,   \* builders[s][d]: ExchangePusher's partial container for d
    current,    \* current[s]: ExchangePusher's current time, an Option<T>
    queue,      \* queue[d]: messages in flight to worker d's receive primitive
    slot,       \* slot[d]: the Option<Message> the puller of d last returned
    log,        \* log[w]: the MessagesEvents logged on worker w, in order
    npush,      \* number of push calls made by producers so far
    pushed,     \* pushed[t][r]: copies of record r pushed at time t (history)
    handed,     \* handed[s][d]: slots passed to LogPusher (s,d).push (history)
    wire,       \* wire[s][d]: slots LogPusher (s,d) forwarded (history)
    seen,       \* seen[d]: messages pull returned at worker d (history)
    trace       \* trace[s]: what the LogPushers of worker s did, in order (history)

vars == <<pact, peers, pushers, pullers, builders, current, queue, slot, log,
          npush, pushed, handed, wire, seen, trace>>

Workers == 0..(peers - 1)

\* ------------------------------------------------------ LogPusher, LogPuller

\* LogPusher::new.  pusher names the wrapped send primitive by the worker
\* whose queue it feeds.
LogPusher_new(pusher, source, target, channel, logging) ==
    [pusher |-> pusher, channel |-> channel, counter |-> 0, source |-> source,
     target |-> target, logging |-> logging]

\* LogPuller::new.  puller names the wrapped receive primitive by the worker
\* whose queue it drains.
LogPuller_new(puller, index, channel, logging) ==
    [puller |-> puller, channel |-> channel, index |-> index, logging |-> logging]

\* container.len()
len(data) == Len(data)

\* LogPusher::push stamping the counter after the increment (seq one too large).
LogPusher_push_SeqAfterIncrement(self, pair) ==
    IF pair # <<>>
    THEN LET counter1 == self.counter + 1
             bundle == [pair[1] EXCEPT !.seq = counter1, !.from = self.source]
             event == [is_send |-> TRUE, channel |-> self.channel,
                       source |-> self.source, target |-> self.target,
                       seq_no |-> counter1, length |-> len(bundle.data)]
         IN  [self |-> [self EXCEPT !.counter = counter1],
              events |-> IF self.logging THEN <<event>> ELSE <<>>,
              order |-> IF self.logging THEN <<"log", "push">> ELSE <<"push">>,
              forward |-> << <<bundle>> >>]
    ELSE [self |-> self, events |-> <<>>, order |-> <<"push">>,
          forward |-> << <<>> >>]

\* LogPusher::push stamping from with the pusher's target instead of its source.
LogPusher_push_FromTarget(self, pair) ==
    IF pair # <<>>
    THEN LET counter1 == self.counter + 1
             bundle == [pair[1] EXCEPT !.seq = counter1 - 1, !.from = self.target]
             event == [is_send |-> TRUE, channel |-> self.channel,
                       source |-> self.source, target |-> self.target,
                       seq_no |-> counter1 - 1, length |-> len(bundle.data)]
         IN  [self |-> [self EXCEPT !.counter = counter1],
              events |-> IF self.logging THEN <<event>> ELSE <<>>,
              order |-> IF self.logging THEN <<"log", "push">> ELSE <<"push">>,
              forward |-> << <<bundle>> >>]
    ELSE [self |-> self, events |-> <<>>, order |-> <<"push">>,
          forward |-> << <<>> >>]

\* LogPusher::push forwarding the slot only when it holds a message.
LogPusher_push_SkipsEmpty(self, pair) ==
    IF pair # <<>>
    THEN LET counter1 == self.counter + 1
             bundle == [pair[1] EXCEPT !.seq = counter1 - 1, !.from = self.source]
             event == [is_send |-> TRUE, channel |-> self.channel,
                       source |-> self.source, target |-> self.target,
                       seq_no |-> counter1 - 1, length |-> len(bundle.data)]
         IN  [self |-> [self EXCEPT !.counter = counter1],
              events |-> IF self.logging THEN <<event>> ELSE <<>>,
              order |-> IF self.logging THEN <<"log", "push">> ELSE <<"push">>,
              forward |-> << <<bundle>> >>]
    ELSE [self |-> self, events |-> <<>>, order |-> <<>>, forward |-> <<>>]

\* LogPusher::push forwarding a copy of the message and then the message.
LogPusher_push_ForwardsTwice(self, pair) ==
    IF pair # <<>>
    THEN LET counter1 == self.counter + 1
             bundle == [pair[1] EXCEPT !.seq = counter1 - 1, !.from = self.source]
             event == [is_send |-> TRUE, channel |-> self.channel,
                       source |-> self.source, target |-> self.target,
                       seq_no |-> counter1 - 1, length |-> len(bundle.data)]
         IN  [self |-> [self EXCEPT !.counter = counter1],
              events |-> IF self.logging THEN <<event>> ELSE <<>>,
              order |-> IF self.logging THEN <<"log", "push", "push">>
                                        ELSE <<"push", "push">>,
              forward |-> << <<bundle>>, <<bundle>> >>]
    ELSE [self |-> self, events |-> <<>>, order |-> <<"push">>,
          forward |-> << <<>> >>]

\* LogPusher::push that drains the container to count it, forwarding the
\* message with no records.
LogPusher_push_DrainsData(self, pair) ==
    IF pair # <<>>
    THEN LET counter1 == self.counter + 1
             bundle == [pair[1] EXCEPT !.seq = counter1 - 1, !.from = self.source]
             event == [is_send |-> TRUE, channel |-> self.channel,
                       source |-> self.source, target |-> self.target,
                       seq_no |-> counter1 - 1, length |-> len(bundle.data)]
         IN  [self |-> [self EXCEPT !.counter = counter1],
              events |-> IF self.logging THEN <<event>> ELSE <<>>,
              order |-> IF self.logging THEN <<"log", "push">> ELSE <<"push">>,
              forward |-> << <<[bundle EXCEPT !.data = <<>>]>> >>]
    ELSE [self |-> self, events |-> <<>>, order |-> <<"push">>,
          forward |-> << <<>> >>]

\* LogPusher::push that forwards the message first and logs afterwards.
LogPusher_push_LogsAfterForward(self, pair) ==
    IF pair # <<>>
    THEN LET counter1 == self.counter + 1
             bundle == [pair[1] EXCEPT !.seq = counter1 - 1, !.from = self.source]
             event == [is_send |-> TRUE, channel |-> self.channel,
                       source |-> self.source, target |-> self.target,
                       seq_no |-> counter1 - 1, length |-> len(bundle.data)]
         IN  [self |-> [self EXCEPT !.counter = counter1],
              events |-> IF self.logging THEN <<event>> ELSE <<>>,
              order |-> IF self.logging THEN <<"push", "log">> ELSE <<"push">>,
              forward |-> << <<bundle>> >>]
    ELSE [self |-> self, events |-> <<>>, order |-> <<"push">>,
          forward |-> << <<>> >>]

\* LogPusher::push that logs the counter itself as seq_no, one more than the
\* seq it stamps.
LogPusher_push_LogsCounter(self, pair) ==
    IF pair # <<>>
    THEN LET counter1 == self.counter + 1
             bundle == [pair[1] EXCEPT !.seq = counter1 - 1, !.from = self.source]
             event == [is_send |-> TRUE, channel |-> self.channel,
                       source |-> self.source, target |-> self.target,
                       seq_no |-> counter1, length |-> len(bundle.data)]
         IN  [self |-> [self EXCEPT !.counter = counter1],
              events |-> IF self.logging THEN <<event>> ELSE <<>>,
              order |-> IF self.logging THEN <<"log", "push">> ELSE <<"push">>,
              forward |-> << <<bundle>> >>]
    ELSE [self |-> self, events |-> <<>>, order |-> <<"push">>,
          forward |-> << <<>> >>]

\* LogPusher::push that counts and stamps only when it has a logger.
LogPusher_push_StampsOnlyWhenLogging(self, pair) ==
    IF pair # <<>> /\ self.logging
    THEN LET counter1 == self.counter + 1
             bundle == [pair[1] EXCEPT !.seq = counter1 - 1, !.from = self.source]
             event == [is_send |-> TRUE, channel |-> self.channel,
                       source |-> self.source, target |-> self.target,
                       seq_no |-> counter1 - 1, length |-> len(bundle.data)]
         IN  [self |-> [self EXCEPT !.counter = counter1],
              events |-> <<event>>,
              order |-> <<"log", "push">>,
              forward |-> << <<bundle>> >>]
    ELSE [self |-> self, events |-> <<>>, order |-> <<"push">>,
          forward |-> <<pair>>]

\* LogPusher::push.  Returns the pusher after the call, the events logged, the
\* slots passed to the wrapped pusher's push, in order, and the order in which
\* the call logged ("log") and called the wrapped pusher ("push").
LogPusher_push(self, pair) ==
    IF pair # <<>>
    THEN LET counter1 == self.counter + 1
             bundle == [pair[1] EXCEPT !.seq = counter1 - 1, !.from = self.source]
             event == [is_send |-> TRUE, channel |-> self.channel,
                       source |-> self.source, target |-> self.target,
                       seq_no |-> counter1 - 1, length |-> len(bundle.data)]
         IN  [self |-> [self EXCEPT !.counter = counter1],
              events |-> IF self.logging THEN <<event>> ELSE <<>>,
              order |-> IF self.logging THEN <<"log", "push">> ELSE <<"push">>,
              forward |-> << <<bundle>> >>]
    ELSE [self |-> self, events |-> <<>>, order |-> <<"push">>,
          forward |-> << <<>> >>]

\* ------------------------------------------------- the allocator's channels

\* Push of the allocator's send primitive: a message in the slot moves to the
\* back of the destination's queue; an empty slot adds nothing.
ThreadPusher_push(q, element) ==
    IF element # <<>> THEN Append(q, element[1]) ELSE q

\* Pull of the allocator's receive primitive p = [queue, current]: the front
\* of the queue, if any, replaces what the puller held.
ThreadPuller_pull(p) ==
    IF p.queue # <<>> THEN [current |-> <<Head(p.queue)>>, queue |-> Tail(p.queue)]
                      ELSE [current |-> <<>>, queue |-> p.queue]

\* allocator.pipeline(identifier, address) on worker index: both primitives
\* are ends of the worker's own queue.
pipeline(index) == [pusher |-> index, puller |-> index]

\* allocator.allocate(identifier, address) on worker index with n peers: one
\* send primitive per worker, in worker order, and the worker's own receiver.
allocate(index, n) == [senders |-> [i \in 0..(n - 1) |-> i], receiver |-> index]

\* LogPuller::pull that takes the message out of the slot to log it, handing
\* the caller an empty slot.
LogPuller_pull_Takes(self, p) ==
    LET p1 == ThreadPuller_pull(p)
        result == p1.current
    IN  IF result # <<>>
        THEN LET bundle == result[1]
                 event == [is_send |-> FALSE, channel |-> self.channel,
                           source |-> bundle.from, target |-> self.index,
                           seq_no |-> bundle.seq, length |-> len(bundle.data)]
             IN  [puller |-> [p1 EXCEPT !.current = <<>>],
                  events |-> IF self.logging THEN <<event>> ELSE <<>>,
                  result |-> <<>>]
        ELSE [puller |-> p1, events |-> <<>>, result |-> result]

\* LogPuller::pull that pulls the wrapped primitive once to log and once more
\* to return.
LogPuller_pull_PullsTwice(self, p) ==
    LET p1 == ThreadPuller_pull(p)
        logged == p1.current
        p2 == ThreadPuller_pull(p1)
    IN  IF logged # <<>>
        THEN LET bundle == logged[1]
                 event == [is_send |-> FALSE, channel |-> self.channel,
                           source |-> bundle.from, target |-> self.index,
                           seq_no |-> bundle.seq, length |-> len(bundle.data)]
             IN  [puller |-> p2,
                  events |-> IF self.logging THEN <<event>> ELSE <<>>,
                  result |-> p2.current]
        ELSE [puller |-> p2, events |-> <<>>, result |-> p2.current]

\* LogPuller::pull that writes its own index into the from of the message.
LogPuller_pull_Restamps(self, p) ==
    LET p1 == ThreadPuller_pull(p)
        result == p1.current
    IN  IF result # <<>>
        THEN LET bundle == [result[1] EXCEPT !.from = self.index]
                 event == [is_send |-> FALSE, channel |-> self.channel,
                           source |-> bundle.from, target |-> self.index,
                           seq_no |-> bundle.seq, length |-> len(bundle.data)]
             IN  [puller |-> [p1 EXCEPT !.current = <<bundle>>],
                  events |-> IF self.logging THEN <<event>> ELSE <<>>,
                  result |-> <<bundle>>]
        ELSE [puller |-> p1, events |-> <<>>, result |-> result]

\* LogPuller::pull that logs its own index as the source of the message.
LogPuller_pull_LogsIndexAsSource(self, p) ==
    LET p1 == ThreadPuller_pull(p)
        result == p1.current
    IN  IF result # <<>>
        THEN LET bundle == result[1]
                 event == [is_send |-> FALSE, channel |-> self.channel,
                           source |-> self.index, target |-> self.index,
                           seq_no |-> bundle.seq, length |-> len(bundle.data)]
             IN  [puller |-> p1,
                  events |-> IF self.logging THEN <<event>> ELSE <<>>,
                  result |-> result]
        ELSE [puller |-> p1, events |-> <<>>, result |-> result]

\* LogPuller::pull over the wrapped receive primitive p.  Returns the
\* primitive after the call, the events logged and the slot handed to the
\* caller (the primitive's current).
LogPuller_pull(self, p) ==
    LET p1 == ThreadPuller_pull(p)
        result == p1.current
    IN  IF result # <<>>
        THEN LET bundle == result[1]
                 event == [is_send |-> FALSE, channel |-> self.channel,
                           source |-> bundle.from, target |-> self.index,
                           seq_no |-> bundle.seq, length |-> len(bundle.data)]
             IN  [puller |-> p1,
                  events |-> IF self.logging THEN <<event>> ELSE <<>>,
                  result |-> result]
        ELSE [puller |-> p1, events |-> <<>>, result |-> result]

\* The queue after the wrapped pusher received the slots of fw, in order.
RECURSIVE Deliver(_, _)
Deliver(q, fw) ==
    IF fw = <<>> THEN q ELSE Deliver(ThreadPusher_push(q, Head(fw)), Tail(fw))

\* --------------------------------------------------------------- connect

\* Pipeline::connect labelling the LogPusher with target 0.
Pipeline_connect_TargetZero(index, identifier, logging) ==
    LET a == pipeline(index)
    IN  [senders |-> [i \in {index} |->
                        LogPusher_new(a.pusher, index, 0, identifier, logging)],
         puller |-> LogPuller_new(a.puller, index, identifier, logging)]

\* Pipeline::connect on worker index.
Pipeline_connect(index, identifier, logging) ==
    LET a == pipeline(index)
    IN  [senders |-> [i \in {index} |->
                        LogPusher_new(a.pusher, index, index, identifier, logging)],
         puller |-> LogPuller_new(a.puller, index, identifier, logging)]

\* ExchangeCore::connect with LogPusher::new's source and target exchanged.
Exchange_connect_SwappedLabels(index, n, identifier, logging) ==
    LET a == allocate(index, n)
    IN  [senders |-> [i \in DOMAIN a.senders |->
                        LogPusher_new(a.senders[i], i, index, identifier, logging)],
         puller |-> LogPuller_new(a.receiver, index, identifier, logging)]

\* ExchangeCore::connect wrapping the allocator's senders in reverse order.
Exchange_connect_Reversed(index, n, identifier, logging) ==
    LET a == allocate(index, n)
    IN  [senders |-> [i \in DOMAIN a.senders |->
                        LogPusher_new(a.senders[n - 1 - i], index, i, identifier, logging)],
         puller |-> LogPuller_new(a.receiver, index, identifier, logging)]

\* ExchangeCore::connect on worker index, the allocator having n peers.
Exchange_connect(index, n, identifier, logging) ==
    LET a == allocate(index, n)
    IN  [senders |-> [i \in DOMAIN a.senders |->
                        LogPusher_new(a.senders[i], index, i, identifier, logging)],
         puller |-> LogPuller_new(a.receiver, index, identifier, logging)]

\* ---------------------------------------------- the Exchange pusher (fan-out)

\* Records a container builder holds before it yields a full container.
BuilderCapacity == 2

\* The distribution function handed to Exchange::new.
hash_func(datum) == datum

RECURSIVE BitAnd(_, _)
BitAnd(a, b) ==
    IF a = 0 \/ b = 0 THEN 0
    ELSE (a % 2) * (b % 2) + 2 * BitAnd(a \div 2, b \div 2)

is_power_of_two(n) == n > 0 /\ BitAnd(n, n - 1) = 0

\* The destination of a record among n pushers.
Route(datum, n) ==
    IF is_power_of_two(n) THEN BitAnd(hash_func(datum), n - 1)
                          ELSE hash_func(datum) % n

Message_new(time, data, from, seq) ==
    [time |-> time, data |-> data, seq |-> seq, from |-> from]

\* One call of pushers[d].push(pair) inside a send endpoint x, where x holds
\* the endpoint's pushers, builders and current time and the queues its send
\* primitives feed, and collects what the call hands to each LogPusher, what
\* each forwards, the events logged, and the order of the logging and the
\* forwarding (each entry naming the LogPusher by d and the call by whether
\* its slot held a message and by the counter it left).
PushTo(x, d, pair) ==
    LET r == LogPusher_push(x.pushers[d], pair)
        to == r.self.pusher
    IN  [x EXCEPT !.pushers[d] = r.self,
                  !.queue[to] = Deliver(@, r.forward),
                  !.handed[d] = Append(@, pair),
                  !.wire[d] = @ \o r.forward,
                  !.events = @ \o r.events,
                  !.trace = @ \o [k \in DOMAIN r.order |->
                                   [op |-> r.order[k], target |-> d,
                                    some |-> pair # <<>>,
                                    count |-> r.self.counter]]]

\* Message::push_at(container, time, pusher)
push_at(x, d, container, time) ==
    PushTo(x, d, <<Message_new(time, container, 0, 0)>>)

\* Exchange::flush(index): the builder's unfinished container, if any, is
\* sent at the current time.
flush(x, index) ==
    IF x.builders[index] = <<>> THEN x
    ELSE LET y == [x EXCEPT !.builders[index] = <<>>]
         IN  IF x.current # <<>>
             THEN push_at(y, index, x.builders[index], x.current[1])
             ELSE y

\* for index in from..n-1 { flush(index) }
RECURSIVE FlushFrom(_, _, _)
FlushFrom(x, from, n) ==
    IF from >= n THEN x ELSE FlushFrom(flush(x, from), from + 1, n)

\* for index in from..n-1 { flush(index); pushers[index].push(&mut None) }
RECURSIVE FlushNoneFrom(_, _, _)
FlushNoneFrom(x, from, n) ==
    IF from >= n THEN x
    ELSE FlushNoneFrom(PushTo(flush(x, from), from, <<>>), from + 1, n)

\* for datum in data.drain() { push_into builders[index]; extract and send }
RECURSIVE Distribute(_, _, _, _)
Distribute(x, data, time, n) ==
    IF data = <<>> THEN x
    ELSE LET index == Route(Head(data), n)
             full == Append(x.builders[index], Head(data))
             y == IF Len(full) >= BuilderCapacity
                  THEN push_at([x EXCEPT !.builders[index] = <<>>], index, full, time)
                  ELSE [x EXCEPT !.builders[index] = full]
         IN  Distribute(y, Tail(data), time, n)

\* Exchange::push(message) over n pushers.
Exchange_push(x, message, n) ==
    IF n = 1 THEN PushTo(x, 0, message)
    ELSE IF message # <<>>
    THEN LET time == message[1].time
             y == IF x.current # <<>> /\ x.current[1] # time
                  THEN FlushFrom(x, 0, n) ELSE x
         IN  Distribute([y EXCEPT !.current = <<time>>], message[1].data, time, n)
    ELSE FlushNoneFrom(x, 0, n)

\* --------------------------------------------------------------- the system

Pacts == {"Pipeline", "Exchange"}

Connect(p, index, n, identifier, logging) ==
    IF p = "Pipeline" THEN Pipeline_connect(index, identifier, logging)
                      ELSE Exchange_connect(index, n, identifier, logging)

\* The state after every worker has connected the channel.
InitWith(logging) ==
    /\ pact \in Pacts
    /\ peers \in PeerCounts
    /\ \E identifier \in Identifiers :
         /\ pushers = [s \in Workers |-> Connect(pact, s, peers, identifier, logging).senders]
         /\ pullers = [d \in Workers |-> Connect(pact, d, peers, identifier, logging).puller]
    /\ builders = [s \in Workers |-> [d \in DOMAIN pushers[s] |-> <<>>]]
    /\ current = [s \in Workers |-> <<>>]
    /\ queue = [d \in Workers |-> <<>>]
    /\ slot = [d \in Workers |-> <<>>]
    /\ log = [w \in Workers |-> <<>>]
    /\ npush = 0
    /\ pushed = [t \in Times |-> [r \in Records |-> 0]]
    /\ handed = [s \in Workers |-> [d \in DOMAIN pushers[s] |-> <<>>]]
    /\ wire = [s \in Workers |-> [d \in DOMAIN pushers[s] |-> <<>>]]
    /\ seen = [d \in Workers |-> <<>>]
    /\ trace = [s \in Workers |-> <<>>]

\* Every worker logs.
Init == InitWith(TRUE)

\* The send endpoint of worker s, before a call.
Endpoint(s) ==
    [pushers |-> pushers[s], builders |-> builders[s], current |-> current[s],
     queue |-> queue,
     handed |-> [d \in DOMAIN pushers[s] |-> <<>>],
     wire |-> [d \in DOMAIN pushers[s] |-> <<>>],
     events |-> <<>>, trace |-> <<>>]

\* Number of occurrences of r in a container.
RECURSIVE Occurrences(_, _)
Occurrences(data, r) ==
    IF data = <<>> THEN 0
    ELSE (IF Head(data) = r THEN 1 ELSE 0) + Occurrences(Tail(data), r)

\* The effect on the system of one call on worker s's send endpoint that
\* took the endpoint to x with the producer's slot being message.
Sent(s, message, x) ==
    /\ pushers' = [pushers EXCEPT ![s] = x.pushers]
    /\ builders' = [builders EXCEPT ![s] = x.builders]
    /\ current' = [current EXCEPT ![s] = x.current]
    /\ queue' = x.queue
    /\ log' = [log EXCEPT ![s] = @ \o x.events]
    /\ npush' = npush + 1
    /\ pushed' = IF message = <<>> THEN pushed
                 ELSE [pushed EXCEPT ![message[1].time] =
                         [r \in Records |-> @[r] + Occurrences(message[1].data, r)]]
    /\ handed' = [handed EXCEPT ![s] = [d \in DOMAIN @ |-> @[d] \o x.handed[d]]]
    /\ wire' = [wire EXCEPT ![s] = [d \in DOMAIN @ |-> @[d] \o x.wire[d]]]
    /\ trace' = [trace EXCEPT ![s] = @ \o x.trace]
    /\ UNCHANGED <<pact, peers, pullers, slot, seen>>

\* A producer on worker s pushes a slot into its Pipeline send endpoint.
PipelinePush(s, message) ==
    /\ pact = "Pipeline"
    /\ npush < MaxPushes
    /\ Sent(s, message, PushTo(Endpoint(s), s, message))

\* A producer on worker s pushes a slot into its Exchange send endpoint.
ExchangePush(s, message) ==
    /\ pact = "Exchange"
    /\ npush < MaxPushes
    /\ Sent(s, message, Exchange_push(Endpoint(s), message, peers))

\* The consumer on worker d pulls from its receive endpoint.
Pull(d) ==
    LET from == pullers[d].puller
        r == LogPuller_pull(pullers[d], [queue |-> queue[from], current |-> slot[from]])
    IN  /\ queue' = [queue EXCEPT ![from] = r.puller.queue]
        /\ slot' = [slot EXCEPT ![from] = r.result]
        /\ log' = [log EXCEPT ![d] = @ \o r.events]
        /\ seen' = [seen EXCEPT ![d] = @ \o r.result]
        /\ UNCHANGED <<pact, peers, pushers, pullers, builders, current, npush,
                       pushed, handed, wire, trace>>

\* The consumer on worker d takes the message out of the slot pull returned.
Take(d) ==
    /\ slot[d] # <<>>
    /\ slot' = [slot EXCEPT ![d] = <<>>]
    /\ UNCHANGED <<pact, peers, pushers, pullers, builders, current, queue, log,
                   npush, pushed, handed, wire, seen, trace>>

Next ==
    \/ \E s \in Workers, message \in InputSlots : PipelinePush(s, message)
    \/ \E s \in Workers, message \in InputSlots : ExchangePush(s, message)
    \/ \E d \in Workers : Pull(d)
    \/ \E d \in Workers : Take(d)

Spec == Init /\ [][Next]_vars

\* No worker logs.
QuietInit == InitWith(FALSE)

QuietSpec == QuietInit /\ [][Next]_vars

\* An Exchange channel whose consumers keep pulling: on every worker a pull
\* that would change the state is eventually made.
AllWorkers == UNION {0..(n - 1) : n \in PeerCounts}

ExchangeInit == Init /\ pact = "Exchange"

ExchangeNext ==
    \/ \E s \in Workers, message \in InputSlots : ExchangePush(s, message)
    \/ \E d \in Workers : Pull(d)
    \/ \E d \in Workers : Take(d)

KeepsPulling == \A d \in AllWorkers : WF_vars(d \in Workers /\ Pull(d))

FairSpec == ExchangeInit /\ [][ExchangeNext]_vars /\ KeepsPulling

\* ------------------------------------------------------------- properties

\* The messages of a sequence of slots, in order (the empty slots dropped).
RECURSIVE Messages(_)
Messages(slots) ==
    IF slots = <<>> THEN <<>> ELSE Head(slots) \o Messages(Tail(slots))

\* The messages of msgs stamped as coming from worker s, in order.
FromSource(msgs, s) == SelectSeq(msgs, LAMBDA m : m.from = s)

IsPrefix(a, b) ==
    /\ Len(a) <= Len(b)
    /\ \A i \in 1..Len(a) : a[i] = b[i]

RECURSIVE Sum(_, _)
Sum(f, S) ==
    IF S = {} THEN 0
    ELSE LET x == CHOOSE y \in S : TRUE IN f[x] + Sum(f, S \ {x})

\* Copies of record r in the messages of msgs that carry time t.
RECURSIVE OccurrencesAt(_, _, _)
OccurrencesAt(msgs, t, r) ==
    IF msgs = <<>> THEN 0
    ELSE (IF Head(msgs).time = t THEN Occurrences(Head(msgs).data, r) ELSE 0)
         + OccurrencesAt(Tail(msgs), t, r)

\* Copies of record r at time t that pull has returned at some worker.
Received(t, r) == Sum([d \in Workers |-> OccurrencesAt(seen[d], t, r)], Workers)
\* ... that are in flight to some worker.
InFlight(t, r) == Sum([d \in Workers |-> OccurrencesAt(queue[d], t, r)], Workers)
\* ... that some send endpoint holds in a builder.
Buffered(t, r) ==
    Sum([s \in Workers |->
           IF current[s] = <<t>>
           THEN Sum([d \in DOMAIN builders[s] |-> Occurrences(builders[s][d], r)],
                    DOMAIN builders[s])
           ELSE 0], Workers)

\* Nothing is buffered in a send endpoint and nothing is in flight.
Drained ==
    /\ \A s \in Workers : \A d \in DOMAIN builders[s] : builders[s][d] = <<>>
    /\ \A d \in Workers : queue[d] = <<>>

\* C1 (conservation): at every state, for every time t and record r, the
\* copies of r pushed at t equal those pull has returned, plus those in
\* flight, plus those buffered, all at t; once everything is flushed and
\* pulled, the copies received equal the copies pushed.
C1_Conservation ==
    \A t \in Times, r \in Records :
        /\ pushed[t][r] = Received(t, r) + InFlight(t, r) + Buffered(t, r)
        /\ Drained => pushed[t][r] = Received(t, r)

\* An Exchange among several workers has moved records of both times, and
\* everything pushed has been flushed and pulled.
C1_Witness ==
    /\ pact = "Exchange" /\ peers > 1 /\ Drained
    /\ \A t \in Times : \E r \in Records : pushed[t][r] > 0
    /\ \E d \in Workers : Len(seen[d]) >= 2

\* C2 (sequence monotonicity at the sender): for every LogPusher, the n-th
\* non-empty slot pushed leaves with seq = n - 1, whatever empty pushes lie in
\* between, and the counter is the number of non-empty pushes so far.
C2_SeqAtSender ==
    \A s \in Workers : \A d \in DOMAIN pushers[s] :
        /\ pushers[s][d].counter = Len(Messages(handed[s][d]))
        /\ Len(Messages(wire[s][d])) = Len(Messages(handed[s][d]))
        /\ \A n \in 1..Len(Messages(wire[s][d])) : Messages(wire[s][d])[n].seq = n - 1

\* One LogPusher has been pushed a message, an empty slot, and a message.
C2_Witness ==
    \E s \in Workers : \E d \in DOMAIN pushers[s] :
        /\ Len(handed[s][d]) = 3
        /\ handed[s][d][1] # <<>> /\ handed[s][d][2] = <<>> /\ handed[s][d][3] # <<>>
        /\ wire[s][d][3][1].seq = 1

\* C3 (sequence numbers at the receiver): at every receive endpoint, the
\* messages pulled that carry a given from have seq 0, 1, 2, ... in pull order.
C3_SeqAtReceiver ==
    \A d \in Workers : \A s \in Workers :
        \A n \in 1..Len(FromSource(seen[d], s)) : FromSource(seen[d], s)[n].seq = n - 1

\* One receive endpoint of an Exchange has returned two messages of one
\* source and, between them, a message of another source.
C3_Witness ==
    /\ pact = "Exchange"
    /\ \E d \in Workers :
         /\ Len(seen[d]) = 3
         /\ seen[d][1].from = seen[d][3].from
         /\ seen[d][2].from # seen[d][1].from
         /\ seen[d][3].seq = 1

\* C4 (provenance): every message pull has returned at worker d carries the
\* index of a worker whose LogPusher forwarded that very message to d, and
\* every message a worker's LogPusher forwarded carries that worker's index.
C4_Provenance ==
    /\ \A s \in Workers : \A d \in DOMAIN wire[s] :
         \A n \in 1..Len(Messages(wire[s][d])) : Messages(wire[s][d])[n].from = s
    /\ \A d \in Workers : \A n \in 1..Len(seen[d]) :
         /\ seen[d][n].from \in Workers
         /\ d \in DOMAIN wire[seen[d][n].from]
         /\ \E k \in 1..Len(wire[seen[d][n].from][d]) :
              wire[seen[d][n].from][d][k] = <<seen[d][n]>>

\* A message has been pulled at a worker other than its sender, its from
\* having held another value when it was pushed.
C4_Witness ==
    \E d \in Workers : \E n \in 1..Len(seen[d]) :
        LET s == seen[d][n].from
        IN  /\ s # d
            /\ \E k \in 1..Len(handed[s][d]) :
                 /\ handed[s][d][k] # <<>>
                 /\ handed[s][d][k][1].from # s
                 /\ wire[s][d][k] = <<seen[d][n]>>

\* C5 (FIFO for Pipeline): on every worker of a Pipeline, the messages pull
\* has returned are, in order, the first messages pushed, each with the
\* time and data it was pushed with, seq counting from 0 and from the worker.
C5_PipelineFifo ==
    pact = "Pipeline" =>
        \A w \in Workers :
            LET sent == Messages(handed[w][w])
            IN  /\ Len(seen[w]) <= Len(sent)
                /\ \A n \in 1..Len(seen[w]) :
                     seen[w][n] = [time |-> sent[n].time, data |-> sent[n].data,
                                   seq |-> n - 1, from |-> w]

\* A Pipeline has delivered three messages of times 0, 0, 1 and of different
\* lengths in push order.
C5_Witness ==
    /\ pact = "Pipeline"
    /\ \E w \in Workers :
         /\ Len(seen[w]) = 3
         /\ seen[w][1].time = 0 /\ seen[w][2].time = 0 /\ seen[w][3].time = 1
         /\ Len(seen[w][1].data) # Len(seen[w][2].data)
         /\ seen[w][3].seq = 2

\* C6 (FIFO per pair for Exchange): for every source s and destination d of an
\* Exchange, the messages of s pulled at d are, in pull order, the first
\* messages the LogPusher of s for d forwarded, in forwarding order.
C6_ExchangeFifo ==
    pact = "Exchange" =>
        \A d \in Workers : \A s \in Workers :
            IsPrefix(FromSource(seen[d], s), Messages(wire[s][d]))

\* A worker of an Exchange has pulled two messages of another worker and one
\* message of a second source.
C6_Witness ==
    /\ pact = "Exchange"
    /\ \E d \in Workers : \E s1 \in Workers \ {d} : \E s2 \in Workers \ {s1} :
         /\ Len(FromSource(seen[d], s1)) = 2
         /\ Len(FromSource(seen[d], s2)) = 1

\* C7 (deterministic routing for Exchange): every record of every message in
\* flight to worker d or pulled at worker d has hash_func(record) mod peers = d.
C7_Routing ==
    pact = "Exchange" =>
        \A d \in Workers :
            \A n \in 1..Len(seen[d] \o queue[d]) :
                LET data == (seen[d] \o queue[d])[n].data
                IN  \A i \in 1..Len(data) : hash_func(data[i]) % peers = d

\* Three workers exchange, and each has pulled a message of its own records.
C7_Witness ==
    /\ pact = "Exchange" /\ peers = 3
    /\ \A d \in Workers :
         /\ seen[d] # <<>>
         /\ \A i \in 1..Len(seen[d][1].data) : seen[d][1].data[i] = d

\* C8 (ownership transfer): no message is returned by pull twice; a worker's
\* pulls return no more messages of a source than were pushed into that
\* source's LogPusher for it; and the slot of a receive endpoint is empty or
\* holds the message pull returned last, which pull had never returned before.
C8_Ownership ==
    /\ \A d \in Workers : \A i, j \in 1..Len(seen[d]) :
         i # j => seen[d][i] # seen[d][j]
    /\ \A d \in Workers : \A n \in 1..Len(seen[d]) : seen[d][n].from \in Workers
    /\ \A d \in Workers : \A s \in Workers :
         Len(FromSource(seen[d], s))
            <= (IF d \in DOMAIN handed[s] THEN Len(Messages(handed[s][d])) ELSE 0)
    /\ \A d \in Workers :
         slot[d] # <<>> => seen[d] # <<>> /\ slot[d] = <<seen[d][Len(seen[d])]>>

\* Two workers have each pulled, one holding its second message in the slot,
\* the other's slot empty again with a further message in flight to it.
C8_Witness ==
    \E d1 \in Workers : \E d2 \in Workers \ {d1} :
        /\ Len(seen[d1]) = 2 /\ slot[d1] = <<seen[d1][2]>>
        /\ Len(seen[d2]) >= 1 /\ slot[d2] = <<>> /\ queue[d2] # <<>>

\* The events of a worker's log that its LogPusher of target d logged.
SendEvents(events, d) == SelectSeq(events, LAMBDA e : e.is_send /\ e.target = d)

\* C9 (empty-slot push): every LogPusher forwards exactly one slot per push
\* call, an empty slot for an empty slot and a message for a message; the
\* counter and the number of send events logged count the non-empty pushes
\* only.
C9_EmptyPush ==
    \A s \in Workers : \A d \in DOMAIN pushers[s] :
        /\ Len(wire[s][d]) = Len(handed[s][d])
        /\ \A n \in 1..Len(handed[s][d]) :
             (handed[s][d][n] = <<>>) <=> (wire[s][d][n] = <<>>)
        /\ pushers[s][d].counter = Len(Messages(handed[s][d]))
        /\ Len(SendEvents(log[s], d)) = Len(Messages(handed[s][d]))

\* A LogPusher that had already sent a message was pushed an empty slot last.
C9_Witness ==
    \E s \in Workers : \E d \in DOMAIN pushers[s] :
        /\ Len(handed[s][d]) >= 2
        /\ handed[s][d][Len(handed[s][d])] = <<>>
        /\ wire[s][d][Len(wire[s][d])] = <<>>
        /\ pushers[s][d].counter = 1

\* C10 (single assignment of seq and from): the k-th message handed to a
\* LogPusher leaves it with seq = k - 1 and from = its worker, time and data
\* as handed, the counter having advanced once per message; and every
\* message in flight, in a slot or returned by pull is, field for field, the
\* message its from and seq name among those forwarded: nothing rewrites
\* them after the push.
C10_SingleAssignment ==
    /\ \A s \in Workers : \A d \in DOMAIN pushers[s] :
         /\ Len(Messages(wire[s][d])) = Len(Messages(handed[s][d]))
         /\ pushers[s][d].counter = Len(Messages(handed[s][d]))
         /\ \A k \in 1..Len(Messages(wire[s][d])) :
              Messages(wire[s][d])[k] =
                 [Messages(handed[s][d])[k] EXCEPT !.seq = k - 1, !.from = s]
    /\ \A d \in Workers :
         \A n \in 1..Len(seen[d] \o queue[d] \o slot[d]) :
            LET m == (seen[d] \o queue[d] \o slot[d])[n]
            IN  /\ m.from \in Workers
                /\ d \in DOMAIN wire[m.from]
                /\ m.seq + 1 \in 1..Len(Messages(wire[m.from][d]))
                /\ Messages(wire[m.from][d])[m.seq + 1] = m

\* A worker pulled, from another worker, that worker's second message, whose
\* seq and from both differ from what they held when it was handed over.
C10_Witness ==
    \E d \in Workers : \E n \in 1..Len(seen[d]) :
        LET m == seen[d][n]
        IN  /\ m.from # d /\ m.seq = 1
            /\ Messages(handed[m.from][d])[2].seq # 1
            /\ Messages(handed[m.from][d])[2].from # m.from

\* C11 (payload preservation on send): LogPusher::push forwards, for every
\* slot it is handed, a slot whose message has the time and the data of the
\* message handed in; of the pusher itself only the counter ever differs from
\* what connect constructed.
C11_PayloadPreserved ==
    \A s \in Workers : \A d \in DOMAIN pushers[s] :
        /\ Len(wire[s][d]) = Len(handed[s][d])
        /\ \A n \in DOMAIN handed[s][d] :
              IF handed[s][d][n] = <<>> THEN wire[s][d][n] = <<>>
              ELSE /\ wire[s][d][n] # <<>>
                   /\ wire[s][d][n][1].time = handed[s][d][n][1].time
                   /\ wire[s][d][n][1].data = handed[s][d][n][1].data
        /\ [pushers[s][d] EXCEPT !.counter = 0]
             = Connect(pact, s, peers, pushers[s][d].channel,
                       pushers[s][d].logging).senders[d]

\* A pre-stamped message of three records went through a LogPusher: its seq
\* was rewritten, its time and data were not.
C11_Witness ==
    \E s \in Workers : \E d \in DOMAIN pushers[s] : \E n \in DOMAIN handed[s][d] :
        /\ handed[s][d][n] # <<>>
        /\ n \in DOMAIN wire[s][d]
        /\ wire[s][d][n] # <<>>
        /\ handed[s][d][n][1].seq # wire[s][d][n][1].seq
        /\ wire[s][d][n][1].time = 1
        /\ wire[s][d][n][1].data = <<2, 0, 2>>
        /\ pushers[s][d].counter > 0

\* C12 (pass-through on receive): in every reachable state, a call of
\* LogPuller::pull on worker d leaves the wrapped receive primitive as exactly
\* one pull of that primitive leaves it, the message still in the slot, and
\* returns that slot; the LogPuller is as connect constructed it; and the
\* messages pulled or still queued at d are, source by source, the messages
\* forwarded to d, field for field, none missing and none added.
C12_PassThrough ==
    \A d \in Workers :
        LET p == [queue |-> queue[pullers[d].puller],
                  current |-> slot[pullers[d].puller]]
            r == LogPuller_pull(pullers[d], p)
        IN  /\ r.puller = ThreadPuller_pull(p)
            /\ r.result = ThreadPuller_pull(p).current
            /\ pullers[d] = Connect(pact, d, peers, pullers[d].channel,
                                    pullers[d].logging).puller
            /\ \A s \in Workers :
                 FromSource(seen[d] \o queue[d], s)
                   = IF d \in DOMAIN wire[s] THEN Messages(wire[s][d]) ELSE <<>>
            /\ Len(seen[d]) + Len(queue[d])
                 = Sum([s \in Workers |-> IF d \in DOMAIN wire[s]
                                          THEN Len(Messages(wire[s][d])) ELSE 0],
                       Workers)

\* A pull returned a pre-stamped message of three records, which is still in
\* the slot, and another message waits in the queue for the next pull.
C12_Witness ==
    \E d \in Workers :
        /\ seen[d] # <<>>
        /\ slot[d] = <<seen[d][Len(seen[d])]>>
        /\ slot[d][1].data = <<2, 0, 2>>
        /\ queue[d] # <<>>
        /\ LogPuller_pull(pullers[d], [queue |-> queue[d], current |-> slot[d]]).result
             = <<Head(queue[d])>>

\* The send event LogPusher self logs for the stamped message bundle.
SendEventOf(self, bundle) ==
    [is_send |-> TRUE, channel |-> self.channel, source |-> self.source,
     target |-> self.target, seq_no |-> bundle.seq, length |-> Len(bundle.data)]

\* C13 (send trace event): with a logger, the send events worker s logged for
\* each of its LogPushers are, in order, one per message the pusher forwarded,
\* each with the pusher's channel, source and target, the seq stamped on that
\* message and the number of its records; no other send event is logged; and
\* each event is logged immediately before the wrapped pusher is called with
\* the message of the same call, never after it and never for an empty slot.
C13_SendEvent ==
    \A s \in Workers :
        /\ \A d \in DOMAIN pushers[s] :
             LET sent == Messages(wire[s][d])
             IN  SendEvents(log[s], d)
                   = [k \in 1..Len(sent) |-> SendEventOf(pushers[s][d], sent[k])]
        /\ \A k \in DOMAIN log[s] :
             log[s][k].is_send => log[s][k].target \in DOMAIN pushers[s]
        /\ \A i \in DOMAIN trace[s] :
             /\ trace[s][i].op = "log" =>
                  /\ trace[s][i].some
                  /\ i < Len(trace[s])
                  /\ trace[s][i + 1] = [trace[s][i] EXCEPT !.op = "push"]
             /\ (trace[s][i].op = "push" /\ trace[s][i].some) =>
                  /\ i > 1
                  /\ trace[s][i - 1] = [trace[s][i] EXCEPT !.op = "log"]

\* Worker s logged a send event of seq_no 1 and length 3 for a message it
\* forwarded on to worker d, and has also pushed an empty slot since.
C13_Witness ==
    \E s \in Workers : \E d \in DOMAIN pushers[s] :
        /\ \E k \in DOMAIN log[s] :
             log[s][k] = [is_send |-> TRUE, channel |-> pushers[s][d].channel,
                          source |-> s, target |-> d, seq_no |-> 1, length |-> 3]
        /\ \E n \in DOMAIN wire[s][d] :
             /\ wire[s][d][n] # <<>>
             /\ wire[s][d][n][1].seq = 1
             /\ Len(wire[s][d][n][1].data) = 3
        /\ \E i \in DOMAIN trace[s] : ~trace[s][i].some

\* The events of a log that are receive events.
ReceiveEvents(events) == SelectSeq(events, LAMBDA e : ~e.is_send)

\* The receive event LogPuller self logs for the message bundle it returns.
ReceiveEventOf(self, bundle) ==
    [is_send |-> FALSE, channel |-> self.channel, source |-> bundle.from,
     target |-> self.index, seq_no |-> bundle.seq, length |-> Len(bundle.data)]

\* C14 (receive trace event): with a logger, the receive events worker d
\* logged are, in order, one per message its pulls returned, each with the
\* puller's channel, the message's from as source, the puller's index as
\* target, the message's seq and the number of its records; a pull of an
\* empty queue would log nothing and a pull of a non-empty queue one event.
C14_ReceiveEvent ==
    \A d \in Workers :
        /\ ReceiveEvents(log[d])
             = [k \in 1..Len(seen[d]) |-> ReceiveEventOf(pullers[d], seen[d][k])]
        /\ LET r == LogPuller_pull(pullers[d], [queue |-> queue[d],
                                                current |-> slot[d]])
           IN  /\ r.result = <<>> => r.events = <<>>
               /\ r.result # <<>> =>
                    r.events = <<ReceiveEventOf(pullers[d], r.result[1])>>

\* Worker d, which is not the sender, logged the receive event of a message of
\* seq 1 with two records; its queue and slot are now empty, so that its next
\* pull returns an empty slot.
C14_Witness ==
    \E d \in Workers :
        /\ \E k \in DOMAIN seen[d] :
             /\ seen[d][k].from # d
             /\ seen[d][k].seq = 1
             /\ Len(seen[d][k].data) = 2
             /\ ReceiveEventOf(pullers[d], seen[d][k])
                  = [is_send |-> FALSE, channel |-> pullers[d].channel,
                     source |-> seen[d][k].from, target |-> d, seq_no |-> 1,
                     length |-> 2]
             /\ \E j \in DOMAIN log[d] :
                  log[d][j] = ReceiveEventOf(pullers[d], seen[d][k])
        /\ queue[d] = <<>>
        /\ slot[d] = <<>>

\* Every send endpoint has flushed: no builder holds a record.
Flushed == \A s \in Workers : \A d \in DOMAIN builders[s] : builders[s][d] = <<>>

\* Copies of record r at time t that pull has returned at r's destination.
ReceivedAt(t, r) == OccurrencesAt(seen[Route(r, peers)], t, r)

\* Every record pushed has been yielded at its destination worker.
Delivered == \A t \in Times : \A r \in Records : ReceivedAt(t, r) = pushed[t][r]

\* C15 (eventual delivery): on an Exchange channel whose workers keep
\* pulling, it never happens that from some point on the senders stay flushed
\* while a pushed record is still to be yielded: if the senders have flushed
\* what they pushed, then eventually every copy of every record pushed has
\* been yielded by the receive endpoint of the record's destination worker.
C15_EventualDelivery == []<>(Flushed => Delivered)

\* Two workers: records 0, 1 and 2 were pushed on one worker and flushed by an
\* empty slot; worker 0 has pulled the 0 and the 2s, worker 1 the 1s, all
\* stamped with the one sender.
C15_Witness ==
    /\ pact = "Exchange"
    /\ peers = 2
    /\ Flushed
    /\ \E s \in Workers :
         /\ \A d \in Workers : handed[s][d] # <<>>
                                 /\ handed[s][d][Len(handed[s][d])] = <<>>
         /\ \A d \in Workers : \A k \in DOMAIN seen[d] : seen[d][k].from = s
    /\ \E t \in Times :
         /\ pushed[t][0] >= 1 /\ pushed[t][2] >= 2 /\ pushed[t][1] >= 1
         /\ \A r \in Records : ReceivedAt(t, r) = pushed[t][r]
         /\ OccurrencesAt(seen[0], t, 0) = pushed[t][0]
         /\ OccurrencesAt(seen[0], t, 2) = pushed[t][2]
         /\ OccurrencesAt(seen[1], t, 1) = pushed[t][1]
         /\ OccurrencesAt(seen[1], t, 0) = 0
         /\ OccurrencesAt(seen[0], t, 1) = 0

\* C16 (endpoint labelling matches routing): the LogPusher worker s holds
\* for d has source s and target d and wraps the send primitive that feeds
\* worker d's queue; the LogPuller of d has index d and drains d's queue.
\* Exchange gives every worker one LogPusher per worker, itself included,
\* Pipeline a single one with source = target = the worker; a LogPusher that
\* has forwarded nothing has its counter at 0.  Every message queued at or
\* pulled by worker d was forwarded by the LogPusher with target d of the
\* worker named in its from.
C16_Labelling ==
    \A s \in Workers :
        /\ DOMAIN pushers[s] = IF pact = "Pipeline" THEN {s} ELSE Workers
        /\ pullers[s].index = s
        /\ pullers[s].puller = s
        /\ \A d \in DOMAIN pushers[s] :
             /\ pushers[s][d].source = s
             /\ pushers[s][d].target = d
             /\ pushers[s][d].pusher = pushers[s][d].target
             /\ pushers[s][d].channel = pullers[d].channel
             /\ wire[s][d] = <<>> => pushers[s][d].counter = 0
        /\ \A k \in 1..Len(seen[s] \o queue[s]) :
             LET m == (seen[s] \o queue[s])[k]
             IN  /\ m.from \in Workers
                 /\ s \in DOMAIN pushers[m.from]
                 /\ pushers[m.from][s].target = s
                 /\ pushers[m.from][s].source = m.from
                 /\ \E n \in DOMAIN wire[m.from][s] : wire[m.from][s][n] = <<m>>

\* Three workers on an Exchange channel: worker 2 pulled a message worker 1
\* sent, and worker 1's LogPusher for worker 0 has not been used.
C16_Witness ==
    /\ pact = "Exchange"
    /\ peers = 3
    /\ \E k \in DOMAIN seen[2] : seen[2][k].from = 1
    /\ pushers[1][2].counter > 0
    /\ pushers[1][0].counter = 0
    /\ wire[1][0] = <<>>

\* What a trace event says apart from its direction.
EventKey(e) ==
    [channel |-> e.channel, source |-> e.source, target |-> e.target,
     seq_no |-> e.seq_no]

\* The positions of a log holding events of the given direction and
\* (channel, source, target) triple.
EventsFor(events, is_send, channel, source, target) ==
    {k \in DOMAIN events :
        /\ events[k].is_send = is_send
        /\ events[k].channel = channel
        /\ events[k].source = source
        /\ events[k].target = target}

\* C17 (send/receive event matching): with loggers on all workers, at every
\* state each receive event logged by a worker has, in the log of the worker
\* it names as source, a send event with the same channel, source, target,
\* seq_no and length (logs only grow, so the send event was logged first);
\* within the sends and within the receives no (channel, source, target,
\* seq_no) occurs twice, so distinct receive events match distinct send
\* events; and per (channel, source, target) the receive events are no more
\* than the send events.
C17_EventMatching ==
    \A d \in Workers :
        /\ \A k \in DOMAIN log[d] :
             ~log[d][k].is_send =>
                /\ log[d][k].source \in Workers
                /\ log[d][k].target = d
                /\ \E j \in DOMAIN log[log[d][k].source] :
                     log[log[d][k].source][j] = [log[d][k] EXCEPT !.is_send = TRUE]
        /\ \A j, k \in DOMAIN log[d] :
             (/\ j # k
              /\ log[d][j].is_send = log[d][k].is_send)
                => EventKey(log[d][j]) # EventKey(log[d][k])
        /\ \A k \in DOMAIN log[d] :
             log[d][k].is_send => log[d][k].source = d
        /\ \A s \in Workers : \A c \in Identifiers :
             Cardinality(EventsFor(log[d], FALSE, c, s, d))
               <= Cardinality(EventsFor(log[s], TRUE, c, s, d))

\* Worker d logged two receive events for messages of another worker s, which
\* logged three send events to d: one message is still on its way.
C17_Witness ==
    \E s, d \in Workers : \E c \in Identifiers :
        /\ s # d
        /\ Cardinality(EventsFor(log[d], FALSE, c, s, d)) = 2
        /\ Cardinality(EventsFor(log[s], TRUE, c, s, d)) = 3

\* The LogPusher self after the calls push(slots[1]), push(slots[2]), ...,
\* with the slots it forwarded and the events it logged.
RECURSIVE Replay(_, _)
Replay(acc, slots) ==
    IF slots = <<>> THEN acc
    ELSE LET r == LogPusher_push(acc.self, Head(slots))
         IN  Replay([self |-> r.self, forward |-> acc.forward \o r.forward,
                     events |-> acc.events \o r.events], Tail(slots))

\* C18 (logger independence): in a run without loggers no event is logged;
\* the same pushes made on the LogPushers connect builds with a logger leave
\* the same counters, forward the same slots (hence the same seq and from on
\* every message) and log one event per message; and a pull of a LogPuller
\* with a logger would return the same slot and leave the wrapped primitive
\* in the same state as the pull without one.
C18_LoggerIndependence ==
    /\ \A w \in Workers : log[w] = <<>>
    /\ \A s \in Workers : \A d \in DOMAIN pushers[s] :
         LET logged == Replay([self |-> Connect(pact, s, peers, pushers[s][d].channel,
                                                TRUE).senders[d],
                               forward |-> <<>>, events |-> <<>>], handed[s][d])
         IN  /\ ~pushers[s][d].logging
             /\ logged.self = [pushers[s][d] EXCEPT !.logging = TRUE]
             /\ logged.forward = wire[s][d]
             /\ Len(logged.events) = Len(Messages(handed[s][d]))
    /\ \A d \in Workers :
         LET p == [queue |-> queue[d], current |-> slot[d]]
             quiet == LogPuller_pull(pullers[d], p)
             logged == LogPuller_pull([pullers[d] EXCEPT !.logging = TRUE], p)
         IN  /\ ~pullers[d].logging
             /\ quiet.result = logged.result
             /\ quiet.puller = logged.puller
             /\ quiet.events = <<>>
             /\ Len(logged.events) = Len(logged.result)

\* Without loggers, a LogPusher has stamped two messages and forwarded an
\* empty slot, a puller has returned a message stamped seq 1, another message
\* waits in its queue, and no log holds an event.
C18_Witness ==
    /\ \A w \in Workers : log[w] = <<>> /\ ~pullers[w].logging
    /\ \E s \in Workers : \E d \in DOMAIN pushers[s] :
         /\ ~pushers[s][d].logging
         /\ pushers[s][d].counter = 2
         /\ \E n \in DOMAIN wire[s][d] : wire[s][d][n] = <<>>
         /\ \E k \in DOMAIN seen[d] : seen[d][k].seq = 1 /\ seen[d][k].from = s
    /\ \E d \in Workers : queue[d] # <<>>

====
